---- MODULE Spec2Model ----
(***************************************************************************)
(* Smart-sheet sync: the declarative vendor schema (config.py), its        *)
(* coercers (utils.py) and the batch that normalizes the sheet (sync.py).  *)
(*                                                                         *)
(* Python values are tagged records; a str is the sequence of its          *)
(* characters, so that split, strip, lower, capitalize, the email syntax   *)
(* check and strptime are computed and not assumed.                        *)
(*                                                                         *)
(* The schemas are data, as in config.py, and Glom interprets them with    *)
(* the rules of the glom library the code imports (glom 18.4 and later,    *)
(* where OMIT is an alias of SKIP):                                        *)
(*   - a str spec is a path; a missing key raises PathAccessError;         *)
(*   - a callable is applied to the target;                                *)
(*   - a tuple chains its steps; a step that evaluates to SKIP is skipped, *)
(*     the previous value stays and the following steps still run;         *)
(*   - a dict builds a dict and drops the keys whose value is SKIP;        *)
(*   - Coalesce returns its first sub-spec that raises no GlomError, else  *)
(*     its default, else raises CoalesceError;                             *)
(*   - a list maps its sub-spec over the target and drops SKIP.            *)
(***************************************************************************)
EXTENDS Integers, Sequences, FiniteSets, TLC

VARIABLES
  pc,                   \* sync_smart_sheet: where the run is
  sheet,                \* sheet.rows as loaded by get_sheet
  smart_sheet_vendors,  \* the list the comprehension at sync.py:141 has built so far
  grx_vendors,          \* the remote records after glom(..., [GRX_COMPANY_SCHEMA])
  exc,                  \* the exception that left sync_smart_sheet, or "none"
  missing_vendors,      \* the sheet vendors whose custom_id the remote platform does not have
  matched_vendors,      \* the sheet vendors it has, each with its remote record under "grx"
  handled,              \* how many vendors the running loop has gone through
  lookups,              \* process_missing_vendors: the vendor of the last iteration and
                        \* what its two lookups returned
  requests,             \* every request sent to the remote platform and to the sheet, in order
  call                  \* the last single call made on the library (op, input, result)

vars == <<pc, sheet, smart_sheet_vendors, grx_vendors, exc, missing_vendors, matched_vendors,
          handled, lookups, requests, call>>

----------------------------------------------------------------------------
(* Python values *)

None == [t |-> "None"]
OMIT == [t |-> "OMIT"]
StrV(s) == [t |-> "str", s |-> s]
IntV(n) == [t |-> "int", n |-> n]
BoolV(b) == [t |-> "bool", b |-> b]
DictV(d) == [t |-> "dict", d |-> d]
ListV(l) == [t |-> "list", l |-> l]
DateV(y, m, dd) == [t |-> "date", y |-> y, m |-> m, dd |-> dd]

\* the dict {}: a function of no key
EmptyFcn == [k \in {} |-> None]
EmptyDict == DictV(EmptyFcn)

\* `not value`
Falsy(v) ==
  \/ v.t = "None"
  \/ v.t = "OMIT"
  \/ v.t = "str" /\ v.s = <<>>
  \/ v.t = "int" /\ v.n = 0
  \/ v.t = "bool" /\ ~v.b
  \/ v.t = "dict" /\ DOMAIN v.d = {}
  \/ v.t = "list" /\ v.l = <<>>

Has(v, k) == v.t = "dict" /\ k \in DOMAIN v.d

\* the outcome of a call: a value, or the exception it raised
Ok(v) == [ok |-> TRUE, v |-> v]
Raise(e) == [ok |-> FALSE, exc |-> e]

\* GlomError and its subclasses (what Coalesce skips)
GlomErrors == {"GlomError", "PathAccessError", "CoalesceError"}

----------------------------------------------------------------------------
(* str operations *)

LowerChars == <<"a","b","c","d","e","f","g","h","i","j","k","l","m",
                "n","o","p","q","r","s","t","u","v","w","x","y","z">>
UpperChars == <<"A","B","C","D","E","F","G","H","I","J","K","L","M",
                "N","O","P","Q","R","S","T","U","V","W","X","Y","Z">>
Digits == <<"0","1","2","3","4","5","6","7","8","9">>

Range(f) == {f[i] : i \in DOMAIN f}
Letters == Range(LowerChars) \cup Range(UpperChars)
IndexOf(seq, c) == CHOOSE i \in DOMAIN seq : seq[i] = c

LowerChar(c) == IF c \in Range(UpperChars) THEN LowerChars[IndexOf(UpperChars, c)] ELSE c
UpperChar(c) == IF c \in Range(LowerChars) THEN UpperChars[IndexOf(LowerChars, c)] ELSE c

\* str.lower()
PyLower(s) == [i \in DOMAIN s |-> LowerChar(s[i])]

\* str.capitalize(): first character upper-cased, the rest lower-cased
PyCapitalize(s) ==
  IF s = <<>> THEN s
  ELSE <<UpperChar(s[1])>> \o [i \in 1..(Len(s) - 1) |-> LowerChar(s[i + 1])]

\* str.strip()
RECURSIVE LStrip(_)
LStrip(s) == IF s # <<>> /\ s[1] = " " THEN LStrip(Tail(s)) ELSE s
RECURSIVE RStrip(_)
RStrip(s) == IF s # <<>> /\ s[Len(s)] = " " THEN RStrip(SubSeq(s, 1, Len(s) - 1)) ELSE s
PyStrip(s) == RStrip(LStrip(s))

\* str.startswith(prefix)
StartsWith(s, prefix) ==
  Len(s) >= Len(prefix) /\ SubSeq(s, 1, Len(prefix)) = prefix

\* str.split(sep) for a one-character sep: every occurrence cuts, empty tokens are kept
RECURSIVE PySplitAcc(_, _, _, _)
PySplitAcc(s, sep, i, cur) ==
  IF i > Len(s) THEN <<cur>>
  ELSE IF s[i] = sep THEN <<cur>> \o PySplitAcc(s, sep, i + 1, <<>>)
  ELSE PySplitAcc(s, sep, i + 1, Append(cur, s[i]))
PySplit(s, sep) == PySplitAcc(s, sep, 1, <<>>)

\* str(int)
RECURSIVE IntToStr(_)
IntToStr(n) ==
  IF n < 10 THEN <<Digits[n + 1]>>
  ELSE IntToStr(n \div 10) \o <<Digits[(n % 10) + 1]>>

\* int(digits)
RECURSIVE StrToInt(_)
StrToInt(s) ==
  IF s = <<>> THEN 0
  ELSE 10 * StrToInt(SubSeq(s, 1, Len(s) - 1)) + (IndexOf(Digits, s[Len(s)]) - 1)

AllDigits(s) == s # <<>> /\ \A i \in DOMAIN s : s[i] \in Range(Digits)

\* str(value) for the values a sheet cell holds
PyStr(v) ==
  CASE v.t = "str" -> v.s
    [] v.t = "int" -> IntToStr(v.n)
    [] v.t = "bool" -> IF v.b THEN <<"T","r","u","e">> ELSE <<"F","a","l","s","e">>
    [] v.t = "None" -> <<"N","o","n","e">>

----------------------------------------------------------------------------
(* utils.py: the tables *)

VALID_ANSWERS ==
  << [key |-> <<"l","e","a","s","t">>, label |-> <<"L","e","a","s","t">>],
     [key |-> <<"m","i","n","i","m","a","l">>, label |-> <<"M","i","n","i","m","a","l">>],
     [key |-> <<"m","o","d","e","r","a","t","e">>, label |-> <<"M","o","d","e","r","a","t","e">>],
     [key |-> <<"s","i","g","n","i","f","i","c","a","n","t">>,
      label |-> <<"S","i","g","n","i","f","i","c","a","n","t">>] >>

OrderInfo(tier, validated) ==
  DictV([k \in {"tier", "validated"} |-> IF k = "tier" THEN IntV(tier) ELSE BoolV(validated)])

VALID_ASSESSMENT_TIERS ==
  << [key |-> <<"t","i","e","r"," ","1">>, val |-> OrderInfo(1, TRUE)],
     [key |-> <<"t","i","e","r"," ","2">>, val |-> OrderInfo(2, FALSE)],
     [key |-> <<"t","i","e","r"," ","2"," ","v","a","l","i","d","a","t","e","d">>,
      val |-> OrderInfo(2, TRUE)],
     [key |-> <<"t","i","e","r"," ","3">>, val |-> OrderInfo(3, FALSE)],
     [key |-> <<"n","o"," ","a","s","s","e","s","s","m","e","n","t">>, val |-> None] >>

INHERENT_RISK_FROM_RECOMMENDATION ==
  << <<"U","n","c","o","n","f","i","r","m","e","d"," ","E","x","p","o","s","u","r","e">>,
     <<"H","i","g","h"," ","E","x","p","o","s","u","r","e">>,
     <<"M","e","d","i","u","m"," ","E","x","p","o","s","u","r","e">>,
     <<"L","o","w"," ","E","x","p","o","s","u","r","e">> >>

----------------------------------------------------------------------------
(* utils.py: the coercers. Each returns Ok(value) or Raise(exception). *)

skip_falsy(value) == Ok(IF Falsy(value) THEN OMIT ELSE value)

as_string(value) == Ok(IF Falsy(value) THEN value ELSE StrV(PyStr(value)))

insert_http(value) ==
  IF Falsy(value) THEN Ok(value)
  ELSE IF value.t # "str" THEN Raise("AttributeError")
  ELSE IF ~StartsWith(value.s, <<"h","t","t","p">>)
       THEN Ok(StrV(<<"h","t","t","p","s",":","/","/">> \o value.s))
  ELSE Ok(value)

required(value) == IF Falsy(value) THEN Raise("GlomError") ELSE Ok(value)

\* split(last, spliton)(value), on the characters of a str
SplitStr(last, spliton, s) ==
  IF s = <<>> THEN Raise("GlomError")
  ELSE LET parts == PySplit(s, spliton)
       IN IF Len(parts) < 2 THEN Raise("GlomError")
          ELSE Ok(StrV(IF last THEN parts[Len(parts)] ELSE parts[1]))

split(last, spliton, value) ==
  IF Falsy(value) THEN Raise("GlomError")
  ELSE IF value.t # "str" THEN Raise("AttributeError")
  ELSE SplitStr(last, spliton, value.s)

\* email_validator.validate_email(value, check_deliverability=False,
\* allow_empty_local=True): exactly one @; the local part is empty or a dot-atom;
\* the domain has a period, non-empty labels of letters, digits and hyphens, and
\* ends in a letter. The domain is returned lower-cased.
ATEXT == Letters \cup Range(Digits) \cup {"_", "-", "+"}
LocalOk(local) ==
  \/ local = <<>>
  \/ LET atoms == PySplit(local, ".")
     IN \A i \in DOMAIN atoms :
          /\ atoms[i] # <<>>
          /\ \A j \in DOMAIN atoms[i] : atoms[i][j] \in ATEXT
DomainOk(domain) ==
  LET labels == PySplit(domain, ".")
  IN /\ Len(labels) >= 2
     /\ \A i \in DOMAIN labels :
          /\ labels[i] # <<>>
          /\ \A j \in DOMAIN labels[i] : labels[i][j] \in Letters \cup Range(Digits) \cup {"-"}
          /\ labels[i][1] # "-"
          /\ labels[i][Len(labels[i])] # "-"
     /\ domain[Len(domain)] \in Letters
validate_email(s) ==
  LET parts == PySplit(s, "@")
  IN IF Len(parts) = 2 /\ LocalOk(parts[1]) /\ DomainOk(parts[2])
     THEN [valid |-> TRUE, local |-> parts[1], domain |-> PyLower(parts[2])]
     ELSE [valid |-> FALSE]

\* the name returned as split gave it, not capitalized
email_metadata_NoCapitalize(selector, value) ==
  IF Falsy(value) THEN Raise("GlomError")
  ELSE IF value.t # "str" THEN Raise("TypeError")
  ELSE LET parsed == validate_email(value.s)
       IN IF ~parsed.valid THEN Raise("GlomError")
          ELSE IF selector = "domain" THEN Ok(StrV(parsed.domain))
          ELSE SplitStr(selector # "first_name", ".", parsed.local)

email_metadata(selector, value) ==
  IF Falsy(value) THEN Raise("GlomError")
  ELSE IF value.t # "str" THEN Raise("TypeError")
  ELSE LET parsed == validate_email(value.s)
       IN IF ~parsed.valid THEN Raise("GlomError")
          ELSE IF selector = "domain" THEN Ok(StrV(parsed.domain))
          ELSE LET name == SplitStr(selector # "first_name", ".", parsed.local)
               IN IF name.ok THEN Ok(StrV(PyCapitalize(name.v.s))) ELSE name

RECURSIVE FirstAnswer(_, _)
FirstAnswer(normalized, i) ==
  IF i > Len(VALID_ANSWERS) THEN OMIT
  ELSE IF StartsWith(normalized, VALID_ANSWERS[i].key) THEN StrV(VALID_ANSWERS[i].label)
  ELSE FirstAnswer(normalized, i + 1)

\* validate_answer without .lower()
validate_answer_NoLower(value) ==
  IF Falsy(value) THEN Ok(OMIT)
  ELSE Ok(FirstAnswer(PyStrip(PyStr(value)), 1))

validate_answer(value) ==
  IF Falsy(value) THEN Ok(OMIT)
  ELSE Ok(FirstAnswer(PyLower(PyStrip(PyStr(value))), 1))

valid_assessment_order(value) ==
  IF Falsy(value) THEN Ok(OMIT)
  ELSE LET normalized == PyLower(PyStrip(PyStr(value)))
           hits == {i \in DOMAIN VALID_ASSESSMENT_TIERS : VALID_ASSESSMENT_TIERS[i].key = normalized}
       IN IF hits = {} THEN Ok(OMIT)
          ELSE Ok(VALID_ASSESSMENT_TIERS[CHOOSE i \in hits : TRUE].val)

inherent_risk_level_from_tier(value) ==
  IF value.t = "int" /\ value.n \in 0..3
  THEN Ok(StrV(INHERENT_RISK_FROM_RECOMMENDATION[value.n + 1]))
  ELSE Ok(StrV(INHERENT_RISK_FROM_RECOMMENDATION[1]))

\* datetime.strptime(value, "%Y-%m-%d")
LeapYear(y) == (y % 4 = 0 /\ y % 100 # 0) \/ y % 400 = 0
DaysInMonth(y, m) ==
  IF m = 2 THEN (IF LeapYear(y) THEN 29 ELSE 28)
  ELSE IF m \in {4, 6, 9, 11} THEN 30 ELSE 31
strptime(s) ==
  LET f == PySplit(s, "-")
  IN IF /\ Len(f) = 3
        /\ AllDigits(f[1]) /\ Len(f[1]) = 4 /\ StrToInt(f[1]) >= 1
        /\ AllDigits(f[2]) /\ Len(f[2]) <= 2 /\ StrToInt(f[2]) \in 1..12
        /\ AllDigits(f[3]) /\ Len(f[3]) <= 2
        /\ StrToInt(f[3]) \in 1..DaysInMonth(StrToInt(f[1]), StrToInt(f[2]))
     THEN Ok(DateV(StrToInt(f[1]), StrToInt(f[2]), StrToInt(f[3])))
     ELSE Raise("ValueError")

date_or_none(value) ==
  IF Falsy(value) THEN Ok(None)
  ELSE IF value.t # "str" THEN Raise("TypeError")
  ELSE strptime(value.s)

RECURSIVE FirstCategory(_, _, _)
FirstCategory(category, l, i) ==
  IF i > Len(l) THEN Ok(None)
  ELSE IF ~Has(l[i], "category") THEN Raise("KeyError")
  ELSE IF l[i].d["category"] = StrV(category) THEN Ok(l[i])
  ELSE FirstCategory(category, l, i + 1)

category_match(category, value) ==
  IF Falsy(value) THEN Ok(None)
  ELSE IF value.t # "list" THEN Raise("TypeError")
  ELSE FirstCategory(category, value.l, 1)

----------------------------------------------------------------------------
(* Schema nodes (config.py builds them from str, tuple, dict, list, Coalesce
   and the coercers of utils.py) *)

Key(k) == [n |-> "path", p |-> <<k>>]
Dotted(a, b) == [n |-> "path", p |-> <<a, b>>]
Fn(f) == [n |-> "fn", f |-> f]
Split(last) == [n |-> "fn", f |-> "split", last |-> last, spliton |-> " "]
EmailMetadata(selector) == [n |-> "fn", f |-> "email_metadata", selector |-> selector]
CategoryMatch(category) == [n |-> "fn", f |-> "category_match", category |-> category]
Tuple(steps) == [n |-> "tuple", steps |-> steps]
Coalesce(subspecs, default) ==
  [n |-> "coalesce", subspecs |-> subspecs, has_default |-> TRUE, default |-> default]
CoalesceNoDefault(subspecs) ==
  [n |-> "coalesce", subspecs |-> subspecs, has_default |-> FALSE]
DictSpec(items) == [n |-> "dict", items |-> items]
ListSpec(sub) == [n |-> "list", sub |-> sub]

----------------------------------------------------------------------------
(* glom *)

\* a callable spec: the function is applied to the target
Call(spec, target) ==
  CASE spec.f = "skip_falsy" -> skip_falsy(target)
    [] spec.f = "as_string" -> as_string(target)
    [] spec.f = "insert_http" -> insert_http(target)
    [] spec.f = "required" -> required(target)
    [] spec.f = "split" -> split(spec.last, spec.spliton, target)
    [] spec.f = "email_metadata" -> email_metadata(spec.selector, target)
    [] spec.f = "validate_answer" -> validate_answer(target)
    [] spec.f = "valid_assessment_order" -> valid_assessment_order(target)
    [] spec.f = "date_or_none" -> date_or_none(target)
    [] spec.f = "inherent_risk_level_from_tier" -> inherent_risk_level_from_tier(target)
    [] spec.f = "category_match" -> category_match(spec.category, target)

\* a path: one key after the other; a key that cannot be read raises PathAccessError
RECURSIVE HandlePath(_, _, _)
HandlePath(cur, p, i) ==
  IF i > Len(p) THEN Ok(cur)
  ELSE IF Has(cur, p[i]) THEN HandlePath(cur.d[p[i]], p, i + 1)
  ELSE Raise("PathAccessError")

\* a tuple's step: `if nxt is SKIP: continue` else `res = nxt`
TupleStep(res, nxt) == IF nxt = OMIT THEN res ELSE nxt

\* a dict that assigns whatever the field's spec evaluated to
DictPut_KeepsSkip(ret, field, val) == (field :> val) @@ ret

\* a dict's field: `if val is SKIP: continue` else `ret[field] = val`
DictPut(ret, field, val) == IF val = OMIT THEN ret ELSE (field :> val) @@ ret

\* a list's element: SKIP is not appended
ListPut(ret, val) == IF val = OMIT THEN ret ELSE Append(ret, val)

\* Coalesce, every sub-spec having raised a GlomError
CoalesceExhausted(spec) ==
  IF spec.has_default THEN Ok(spec.default) ELSE Raise("CoalesceError")

RECURSIVE Glom(_, _)
RECURSIVE HandleTuple(_, _, _)
RECURSIVE HandleDict(_, _, _, _)
RECURSIVE HandleList(_, _, _, _)
RECURSIVE HandleCoalesce(_, _, _)

HandleTuple(res, steps, i) ==
  IF i > Len(steps) THEN Ok(res)
  ELSE LET nxt == Glom(res, steps[i])
       IN IF ~nxt.ok THEN nxt
          ELSE HandleTuple(TupleStep(res, nxt.v), steps, i + 1)

HandleDict(target, items, i, ret) ==
  IF i > Len(items) THEN Ok(DictV(ret))
  ELSE LET val == Glom(target, items[i][2])
       IN IF ~val.ok THEN val
          ELSE HandleDict(target, items, i + 1, DictPut(ret, items[i][1], val.v))

HandleList(l, sub, i, ret) ==
  IF i > Len(l) THEN Ok(ListV(ret))
  ELSE LET val == Glom(l[i], sub)
       IN IF ~val.ok THEN val
          ELSE HandleList(l, sub, i + 1, ListPut(ret, val.v))

HandleCoalesce(target, spec, i) ==
  IF i > Len(spec.subspecs) THEN CoalesceExhausted(spec)
  ELSE LET ret == Glom(target, spec.subspecs[i])
       IN IF ret.ok THEN ret
          ELSE IF ret.exc \in GlomErrors THEN HandleCoalesce(target, spec, i + 1)
          ELSE ret

Glom(target, spec) ==
  CASE spec.n = "path" -> HandlePath(target, spec.p, 1)
    [] spec.n = "fn" -> Call(spec, target)
    [] spec.n = "tuple" -> HandleTuple(target, spec.steps, 1)
    [] spec.n = "dict" -> HandleDict(target, spec.items, 1, EmptyFcn)
    [] spec.n = "coalesce" -> HandleCoalesce(target, spec, 1)
    [] spec.n = "list" ->
         IF target.t = "list" THEN HandleList(target.l, spec.sub, 1, <<>>)
         ELSE Raise("TypeError")

----------------------------------------------------------------------------
(* config.py *)

\* the sheet's column titles and the canonical key of each
HEADER_MAPPING ==
  [title \in {"Vendor Name", "Vendor URL", "Vendor HQ City", "Vendor HQ Country",
              "Vendor Owner", "Description", "Location",
              "Vendor Contact Name", "Vendor Contact First Name",
              "Vendor Contact Last Name", "Vendor Contact Email", "Vendor Contact Phone",
              "Order Assessment Tier",
              "Critical/Support", "RTO", "Data Sensitivity", "Legal/Regulatory Compliance",
              "Technology Risk", "Influence",
              "Digital Identities", "People", "Data", "Applications", "Devices",
              "Network Access", "Facilities", "Business Process", "Ingest Date"} |->
     CASE title = "Vendor Name" -> "company_name"
       [] title = "Vendor URL" -> "company_url"
       [] title = "Vendor HQ City" -> "address_city"
       [] title = "Vendor HQ Country" -> "address_country"
       [] title = "Vendor Owner" -> "internal_vendor_owner"
       [] title = "Description" -> "internal_description"
       [] title = "Location" -> "internal_location"
       [] title = "Vendor Contact Name" -> "third_party_contact_name"
       [] title = "Vendor Contact First Name" -> "third_party_contact_first_name"
       [] title = "Vendor Contact Last Name" -> "third_party_contact_last_name"
       [] title = "Vendor Contact Email" -> "third_party_contact_email"
       [] title = "Vendor Contact Phone" -> "third_party_contact_phone"
       [] title = "Order Assessment Tier" -> "assessment_order"
       [] title = "Critical/Support" -> "meta_is_critical_or_support"
       [] title = "RTO" -> "meta_rto"
       [] title = "Data Sensitivity" -> "meta_data_sensitivity"
       [] title = "Legal/Regulatory Compliance" -> "meta_compliance"
       [] title = "Technology Risk" -> "meta_tech_risk"
       [] title = "Influence" -> "meta_influence"
       [] title = "Digital Identities" -> "profile_digital_identities"
       [] title = "People" -> "profile_people"
       [] title = "Data" -> "profile_data"
       [] title = "Applications" -> "profile_applications"
       [] title = "Devices" -> "profile_devices"
       [] title = "Network Access" -> "profile_networks"
       [] title = "Facilities" -> "profile_facilities"
       [] title = "Business Process" -> "profile_business_process"
       [] title = "Ingest Date" -> "ingest_date"]

\* the inner chain given default=OMIT as the outer one has
COMPANY_SCHEMA_url_inner_WithDefault ==
  Coalesce(<< Tuple(<<Key("company_url"), Fn("required")>>),
              Tuple(<<Key("third_party_contact_email"), EmailMetadata("domain")>>) >>, OMIT)

\* Coalesce(("company_url", required), ("third_party_contact_email", email_metadata("domain")))
COMPANY_SCHEMA_url_inner ==
  CoalesceNoDefault(<< Tuple(<<Key("company_url"), Fn("required")>>),
                       Tuple(<<Key("third_party_contact_email"), EmailMetadata("domain")>>) >>)

COMPANY_SCHEMA_url ==
  Coalesce(<< Tuple(<<COMPANY_SCHEMA_url_inner, Fn("required"), Fn("insert_http")>>) >>, OMIT)

COMPANY_SCHEMA_custom_id == Tuple(<<Key("custom_id"), Fn("as_string")>>)

COMPANY_SCHEMA_ingest_date ==
  Tuple(<<Coalesce(<<Key("ingest_date")>>, None), Fn("date_or_none")>>)

COMPANY_SCHEMA_address_fields ==
  DictSpec(<< <<"city", Coalesce(<<Tuple(<<Key("address_city"), Fn("skip_falsy")>>)>>, OMIT)>>,
              <<"country", Coalesce(<<Tuple(<<Key("address_country"), Fn("skip_falsy")>>)>>, OMIT)>> >>)

COMPANY_SCHEMA_address == Tuple(<<COMPANY_SCHEMA_address_fields, Fn("skip_falsy")>>)

COMPANY_SCHEMA_order_info ==
  Coalesce(<<Tuple(<<Key("assessment_order"), Fn("valid_assessment_order")>>)>>, OMIT)

\* the email tried before the full name
COMPANY_SCHEMA_first_name_chain_EmailFirst ==
  Coalesce(<< Tuple(<<Key("third_party_contact_first_name"), Fn("required")>>),
              Tuple(<<Key("third_party_contact_email"), EmailMetadata("first_name")>>),
              Tuple(<<Key("third_party_contact_name"), Split(FALSE), Fn("required")>>) >>, OMIT)

COMPANY_SCHEMA_first_name_chain ==
  Coalesce(<< Tuple(<<Key("third_party_contact_first_name"), Fn("required")>>),
              Tuple(<<Key("third_party_contact_name"), Split(FALSE), Fn("required")>>),
              Tuple(<<Key("third_party_contact_email"), EmailMetadata("first_name")>>) >>, OMIT)

COMPANY_SCHEMA_last_name_chain ==
  Coalesce(<< Tuple(<<Key("third_party_contact_last_name"), Fn("required")>>),
              Tuple(<<Key("third_party_contact_name"), Split(TRUE), Fn("required")>>),
              Tuple(<<Key("third_party_contact_email"), EmailMetadata("last_name")>>) >>, OMIT)

COMPANY_SCHEMA_first_name == Tuple(<<COMPANY_SCHEMA_first_name_chain, Fn("skip_falsy")>>)

COMPANY_SCHEMA_last_name == Tuple(<<COMPANY_SCHEMA_last_name_chain, Fn("skip_falsy")>>)

\* ("third_party_contact_phone", as_string, skip_falsy)
COMPANY_SCHEMA_phone_chain ==
  Tuple(<<Key("third_party_contact_phone"), Fn("as_string"), Fn("skip_falsy")>>)

COMPANY_SCHEMA_contact_fields ==
  DictSpec(<< <<"first_name", COMPANY_SCHEMA_first_name>>,
              <<"last_name", COMPANY_SCHEMA_last_name>>,
              <<"email", Coalesce(<<Tuple(<<Key("third_party_contact_email"), Fn("skip_falsy")>>)>>, OMIT)>>,
              <<"phone", Coalesce(<<COMPANY_SCHEMA_phone_chain>>, OMIT)>> >>)

COMPANY_SCHEMA_third_party_contact == Tuple(<<COMPANY_SCHEMA_contact_fields, Fn("skip_falsy")>>)

\* Coalesce((key, validate_answer), default=OMIT)
Answer(key) == Coalesce(<<Tuple(<<Key(key), Fn("validate_answer")>>)>>, OMIT)

COMPANY_SCHEMA_scoping_fields ==
  DictSpec(<< <<"digital_identities", Answer("profile_digital_identities")>>,
              <<"people", Answer("profile_people")>>,
              <<"data", Answer("profile_data")>>,
              <<"applications", Answer("profile_applications")>>,
              <<"devices", Answer("profile_devices")>>,
              <<"networks", Answer("profile_networks")>>,
              <<"facilities", Answer("profile_facilities")>>,
              <<"business_process", Answer("profile_business_process")>> >>)

COMPANY_SCHEMA_third_party_scoping == Tuple(<<COMPANY_SCHEMA_scoping_fields, Fn("skip_falsy")>>)

\* Coalesce((key, skip_falsy), default=OMIT)
Meta(key) == Coalesce(<<Tuple(<<Key(key), Fn("skip_falsy")>>)>>, OMIT)

COMPANY_SCHEMA_internal_fields ==
  DictSpec(<< <<"owner", Meta("internal_vendor_owner")>>,
              <<"description", Meta("internal_description")>>,
              <<"location", Meta("internal_description")>> >>)

COMPANY_SCHEMA_cyber_classification_fields ==
  DictSpec(<< <<"critical_or_support", Meta("meta_is_critical_or_support")>>,
              <<"rto", Meta("meta_rto")>>,
              <<"data_sensitivity", Meta("meta_data_sensitivity")>>,
              <<"compliance", Meta("meta_compliance")>>,
              <<"tech_risk", Meta("meta_tech_risk")>>,
              <<"influence", Meta("meta_influence")>> >>)

COMPANY_SCHEMA_custom_metadata_fields ==
  DictSpec(<< <<"internal", Tuple(<<COMPANY_SCHEMA_internal_fields, Fn("skip_falsy")>>)>>,
              <<"cyber_classification",
                Tuple(<<COMPANY_SCHEMA_cyber_classification_fields, Fn("skip_falsy")>>)>> >>)

COMPANY_SCHEMA_custom_metadata ==
  Tuple(<<COMPANY_SCHEMA_custom_metadata_fields, Fn("skip_falsy")>>)

COMPANY_SCHEMA ==
  DictSpec(<< <<"name", Key("company_name")>>,
              <<"url", COMPANY_SCHEMA_url>>,
              <<"custom_id", COMPANY_SCHEMA_custom_id>>,
              <<"ingest_date", COMPANY_SCHEMA_ingest_date>>,
              <<"address", COMPANY_SCHEMA_address>>,
              <<"order_info", COMPANY_SCHEMA_order_info>>,
              <<"third_party_contact", COMPANY_SCHEMA_third_party_contact>>,
              <<"third_party_scoping", COMPANY_SCHEMA_third_party_scoping>>,
              <<"custom_metadata", COMPANY_SCHEMA_custom_metadata>> >>)

\* Coalesce("a.b", default=...)
Default(a, b, default) == Coalesce(<<Dotted(a, b)>>, default)

\* Coalesce((Coalesce("residual_risk.residual_risk_outcomes", default=[]),
\*           category_match(category), level), default=None)
Pill(category, level) ==
  Coalesce(<< Tuple(<< Default("residual_risk", "residual_risk_outcomes", ListV(<<>>)),
                       CategoryMatch(category), Key(level) >>) >>, None)

DataLoss == <<"D","a","t","a"," ","L","o","s","s">>
DisruptiveAttack == <<"D","i","s","r","u","p","t","i","v","e"," ","A","t","t","a","c","k">>
DestructiveAttack == <<"D","e","s","t","r","u","c","t","i","v","e"," ","A","t","t","a","c","k">>
Fraud == <<"F","r","a","u","d">>
Unknown == StrV(<<"U","n","k","n","o","w","n">>)

RESIDUAL_RISK_PILLS_SCHEMA ==
  << <<"residual_risk_data_loss_inherent_risk_level", Pill(DataLoss, "inherent_risk_level")>>,
     <<"residual_risk_data_loss_residual_risk_level", Pill(DataLoss, "residual_risk_level")>>,
     <<"residual_risk_disruptive_attack_inherent_risk_level",
       Pill(DisruptiveAttack, "inherent_risk_level")>>,
     <<"residual_risk_disruptive_attack_residual_risk_level",
       Pill(DisruptiveAttack, "residual_risk_level")>>,
     <<"residual_risk_destructive_attack_inherent_risk_level",
       Pill(DestructiveAttack, "inherent_risk_level")>>,
     <<"residual_risk_destructive_attack_residual_risk_level",
       Pill(DestructiveAttack, "residual_risk_level")>>,
     <<"residual_risk_fraud_inherent_risk_level", Pill(Fraud, "inherent_risk_level")>>,
     <<"residual_risk_fraud_residual_risk_level", Pill(Fraud, "residual_risk_level")>> >>

\* GRX_COMPANY_SCHEMA after GRX_COMPANY_SCHEMA.update(RESIDUAL_RISK_PILLS_SCHEMA)
GRX_COMPANY_SCHEMA ==
  DictSpec(<< <<"id", Key("id")>>,
              <<"name", Key("name")>>,
              <<"custom_id", Key("custom_id")>>,
              <<"subsctiption_status", Default("subscription", "status", None)>>,
              <<"is_profile_complete",
                Default("subscription", "is_profile_complete", BoolV(FALSE))>>,
              <<"is_report_available",
                Default("subscription", "is_report_available", BoolV(FALSE))>>,
              <<"impact", Default("inherent_risk", "impact_label", Unknown)>>,
              <<"likelihood", Default("inherent_risk", "likelihood_label", Unknown)>>,
              <<"inherent_risk_level",
                Tuple(<<Default("inherent_risk", "recommended_report_tier", IntV(0)),
                        Fn("inherent_risk_level_from_tier")>>)>>,
              <<"industry", Coalesce(<<Key("industry")>>, Unknown)>>,
              <<"assessment_status", Default("assessment", "status", None)>>,
              <<"assessment_progress", Default("assessment", "progress", None)>>,
              <<"assessment_completion_date", Default("assessment", "completion_date", None)>>,
              <<"assessment_requested_completion_date",
                Default("assessment", "requested_completion_date", None)>> >>
           \o RESIDUAL_RISK_PILLS_SCHEMA)

----------------------------------------------------------------------------
(* utils.py: rows to vendors *)

\* A sheet row: its id and its cells, one per column the sheet has. A column is
\* named by its title (sync.py:131-134 maps the column's id to the title's key).
row_to_vendor(row, column_mapping) ==
  LET keys == {column_mapping[c] : c \in DOMAIN row.cells}
      cell(k) == CHOOSE c \in DOMAIN row.cells : column_mapping[c] = k
  IN DictV(("custom_id" :> StrV(IntToStr(row.id))) @@ [k \in keys |-> row.cells[cell(k)]])

\* the chain without its last elif: the country is not looked at
RecordHasUrlAndAddress_NoCountry(vendor) ==
  IF ~Has(vendor, "url") THEN FALSE
  ELSE IF ~Has(vendor, "address") THEN FALSE
  ELSE IF ~Has(vendor.d["address"], "city") THEN FALSE
  ELSE TRUE

\* the if/elif chain of normalize_vendor
RecordHasUrlAndAddress(vendor) ==
  IF ~Has(vendor, "url") THEN FALSE
  ELSE IF ~Has(vendor, "address") THEN FALSE
  ELSE IF ~Has(vendor.d["address"], "city") THEN FALSE
  ELSE IF ~Has(vendor.d["address"], "country") THEN FALSE
  ELSE TRUE

normalize_vendor(row, column_mapping, spec) ==
  LET vendor == Glom(row_to_vendor(row, column_mapping), spec)
  IN IF ~vendor.ok THEN vendor
     ELSE Ok(DictV(("record_has_url_and_address" :> BoolV(RecordHasUrlAndAddress(vendor.v)))
                   @@ vendor.v.d))

----------------------------------------------------------------------------
(* Inputs *)

MaxRows == 2        \* rows in the sheet of one run
MaxRemote == 2      \* third parties in the bulk response of one run
MaxEmailLen == 7    \* characters of the texts given to email_metadata

\* a column the sheet does not have
Absent == [t |-> "absent"]
Cells(f) == [c \in {x \in DOMAIN f : f[x] # Absent} |-> f[c]]

Acme == StrV(<<"A","c","m","e">>)
Blank == StrV(<<>>)
DottedEmail == StrV(<<"j",".","s","m","i","t","h","@","a","c","m","e",".","c","o","m">>)
PlainEmail == StrV(<<"j","s","m","i","t","h","@","a","c","m","e",".","c","o","m">>)
NotAnEmail == StrV(<<"n","o","t"," ","a","n"," ","e","m","a","i","l">>)
NoLocalEmail == StrV(<<"@","a","c","m","e",".","c","o","m">>)
MixedEmail == StrV(<<"j",".","s","M","I","T","H","@","A","c","m","e",".","C","O","M">>)
BareUrl == StrV(<<"a","c","m","e",".","i","o">>)
HttpUrl == StrV(<<"h","t","t","p",":","/","/","a","c","m","e",".","i","o">>)
AnnLee == StrV(<<"A","n","n"," ","L","e","e">>)
Ann == StrV(<<"A","n","n">>)
SpaceAnnLee == StrV(<<" ","A","n","n"," ","L","e","e">>)
Jo == StrV(<<"J","o">>)
Poe == StrV(<<"P","o","e">>)
Tier1 == StrV(<<"T","i","e","r"," ","1">>)
Tier2Validated == StrV(<<" ","T","i","e","r"," ","2"," ","V","a","l","i","d","a","t","e","d"," ">>)
Nonsense == StrV(<<"n","o","n","s","e","n","s","e">>)
NoAssessment == StrV(<<"N","o"," ","A","s","s","e","s","s","m","e","n","t">>)
GoodDate == StrV(<<"2","0","2","0","-","0","1","-","0","5">>)
SlashDate == StrV(<<"0","1","/","0","5","/","2","0","2","0">>)
NoSuchDay == StrV(<<"2","0","2","1","-","0","2","-","3","0">>)
SignificantImpact ==
  StrV(<<"S","i","g","n","i","f","i","c","a","n","t"," ","i","m","p","a","c","t">>)
UnknownAnswer == StrV(<<"u","n","k","n","o","w","n">>)
Denver == StrV(<<"D","e","n","v","e","r">>)
US == StrV(<<"U","S">>)
Kim == StrV(<<"K","i","m">>)
Desc == StrV(<<"d","e","s","c">>)
HQ == StrV(<<"H","Q">>)
FourHours == StrV(<<"4","h">>)
Phone == IntV(5551)
PhoneText == StrV(<<"5","5","5">>)

\* rows that vary the url, the contact email and the address
UrlRows ==
  { Cells(("Vendor Name" :> Acme) @@ ("Vendor URL" :> url) @@ ("Vendor Contact Email" :> email)
          @@ ("Vendor HQ City" :> city) @@ ("Vendor HQ Country" :> country)) :
      url \in {Absent, None, Blank, BareUrl, HttpUrl},
      email \in {Absent, DottedEmail, PlainEmail, NotAnEmail},
      city \in {Absent, None, Blank, Denver},
      country \in {Absent, None, US} }

\* rows that vary the contact
ContactRows ==
  { Cells(("Vendor Name" :> Acme) @@ ("Vendor Contact First Name" :> first)
          @@ ("Vendor Contact Last Name" :> last) @@ ("Vendor Contact Name" :> name)
          @@ ("Vendor Contact Email" :> email) @@ ("Vendor Contact Phone" :> phone)) :
      first \in {Absent, None, Jo},
      last \in {Absent, Blank, Poe},
      name \in {Absent, None, AnnLee, Ann, SpaceAnnLee},
      email \in {Absent, None, DottedEmail, PlainEmail, NotAnEmail, NoLocalEmail, MixedEmail},
      phone \in {Absent, None, Phone, PhoneText} }

\* rows that vary the name, the order, the ingest date
OrderRows ==
  { Cells(("Vendor Name" :> name) @@ ("Vendor Contact Email" :> email)
          @@ ("Order Assessment Tier" :> order) @@ ("Ingest Date" :> date)) :
      name \in {Absent, None, Acme},
      email \in {Absent, DottedEmail},
      order \in {Absent, None, Tier1, Tier2Validated, Nonsense, NoAssessment},
      date \in {Absent, None, Blank, GoodDate, SlashDate, NoSuchDay} }

\* rows that vary the scoping answers and the custom metadata
MetadataRows ==
  { Cells(("Vendor Name" :> Acme) @@ ("People" :> people) @@ ("Data" :> data)
          @@ ("Vendor Owner" :> owner) @@ ("Description" :> description)
          @@ ("Location" :> location) @@ ("RTO" :> rto)) :
      people \in {Absent, None, SignificantImpact, UnknownAnswer},
      data \in {Absent, SignificantImpact},
      owner \in {Absent, None, Kim},
      description \in {Absent, None, Desc},
      location \in {Absent, None, HQ},
      rto \in {Absent, Blank, FourHours} }

\* a row whose every column is there, with these cells filled and the others empty
Filled(f) == [c \in DOMAIN HEADER_MAPPING |-> IF c \in DOMAIN f THEN f[c] ELSE None]

FilledRows ==
  { Filled(("Vendor Name" :> Acme) @@ ("Vendor Contact Email" :> email)
           @@ ("Order Assessment Tier" :> order) @@ ("Vendor HQ City" :> city)
           @@ ("Vendor HQ Country" :> country)) :
      email \in {None, DottedEmail},
      order \in {None, Tier1},
      city \in {None, Denver},
      country \in {None, US} }

SheetCells == UrlRows \cup ContactRows \cup OrderRows \cup MetadataRows \cup FilledRows

\* the rows of a run: the end-to-end row, a full row, an empty row, a row with a bad date
AcmeCells ==
  ("Vendor Name" :> Acme) @@ ("Vendor Contact Email" :> DottedEmail)
  @@ ("Order Assessment Tier" :> Tier1)
BatchCells ==
  { AcmeCells,
    Filled(AcmeCells @@ ("Vendor URL" :> BareUrl) @@ ("Vendor HQ City" :> Denver)
           @@ ("Vendor HQ Country" :> US) @@ ("Ingest Date" :> GoodDate)),
    Filled(AcmeCells @@ ("Ingest Date" :> SlashDate)),
    Filled("Vendor Name" :> Acme) }

RECURSIVE SeqsUpTo(_, _)
SeqsUpTo(S, n) ==
  IF n = 0 THEN {<<>>}
  ELSE LET shorter == SeqsUpTo(S, n - 1)
       IN shorter \cup {Append(s, x) : s \in {q \in shorter : Len(q) = n - 1}, x \in S}

\* sheet.rows: the row at position i has id i
Sheets == { [i \in DOMAIN cells |-> [id |-> i, cells |-> cells[i]]] : cells \in SeqsUpTo(BatchCells, MaxRows) }

\* third parties as the remote platform returns them
RemoteDict(f) == DictV(Cells(f))
Outcome == DictV(("category" :> StrV(Fraud)) @@ ("inherent_risk_level" :> StrV(<<"H","i","g","h">>))
                 @@ ("residual_risk_level" :> StrV(<<"L","o","w">>)))
RemoteRecords ==
  { RemoteDict(("id" :> id) @@ ("name" :> name) @@ ("custom_id" :> custom_id)
               @@ ("subscription" :> subscription) @@ ("inherent_risk" :> inherent_risk)
               @@ ("residual_risk" :> residual_risk)) :
      id \in {Absent, StrV(<<"g","1">>)},
      name \in {Absent, Acme},
      custom_id \in {Absent, None, StrV(<<"1">>)},
      subscription \in {Absent, None, EmptyDict,
                        DictV(("is_profile_complete" :> BoolV(TRUE))
                              @@ ("status" :> StrV(<<"A","c","t","i","v","e">>)))},
      inherent_risk \in {Absent, DictV("recommended_report_tier" :> IntV(2)),
                         DictV("recommended_report_tier" :> IntV(7))},
      residual_risk \in {Absent, DictV("residual_risk_outcomes" :> ListV(<<>>)),
                         DictV("residual_risk_outcomes" :> ListV(<<Outcome>>))} }

Remote(custom_id, complete) ==
  RemoteDict(("id" :> StrV(<<"g">> \o custom_id)) @@ ("name" :> Acme)
             @@ ("custom_id" :> StrV(custom_id))
             @@ ("subscription" :> DictV("is_profile_complete" :> BoolV(complete))))
BatchRemote ==
  { Remote(<<"1">>, TRUE), Remote(<<"2">>, FALSE),
    RemoteDict(("id" :> StrV(<<"g","3">>)) @@ ("name" :> Acme) @@ ("custom_id" :> None)),
    RemoteDict(("id" :> StrV(<<"g","4">>)) @@ ("name" :> Acme)) }
Responses == SeqsUpTo(BatchRemote, MaxRemote)

\* the texts given to email_metadata: every text of these characters, and the sheet's
EmailChars == {"a", ".", "@"}
EmailTexts ==
  UNION { [1..n -> EmailChars] : n \in 0..MaxEmailLen }
EmailValues ==
  {StrV(s) : s \in EmailTexts} \cup {None, DottedEmail, PlainEmail, NotAnEmail, NoLocalEmail, MixedEmail}

\* the answers given to validate_answer: texts made of up to MaxAnswerPieces
\* pieces, and the values a cell holds that are not texts
MaxAnswerPieces == 3
AnswerPieces ==
  { <<" ">>, <<"l","e","a","s","t">>, <<"L","e","a","s","t">>, <<"M","I","N","I","M","A","L">>,
    <<"m","o","d","e","r","a","t","e">>, SignificantImpact.s, <<"m","i","n","i">>, UnknownAnswer.s }
RECURSIVE Concat(_)
Concat(pieces) == IF pieces = <<>> THEN <<>> ELSE Head(pieces) \o Concat(Tail(pieces))
AnswerTexts == {Concat(pieces) : pieces \in SeqsUpTo(AnswerPieces, MaxAnswerPieces)}
AnswerValues ==
  {StrV(s) : s \in AnswerTexts} \cup {None, IntV(0), IntV(5), BoolV(TRUE), BoolV(FALSE)}

----------------------------------------------------------------------------
(* sync.py: process_missing_vendors, process_profile_updates, process_matched_vendors *)

\* a request as the remote platform or the sheet receives it; custom_id is the
\* custom_id of the sheet vendor the request is sent for
Request(method, path, target, custom_id, body) ==
  [method |-> method, path |-> path, target |-> target, custom_id |-> custom_id, body |-> body]

\* what an iteration leaves: the requests it has sent and the exception it has raised
Sent(reqs) == [requests |-> reqs, exc |-> "none"]
Raised(reqs, e) == [requests |-> reqs, exc |-> e]

\* json.dumps, which requests applies to json=...: a datetime is not serializable
RECURSIVE HasDate(_)
HasDate(v) ==
  CASE v.t = "date" -> TRUE
    [] v.t = "dict" -> \E k \in DOMAIN v.d : HasDate(v.d[k])
    [] v.t = "list" -> \E j \in DOMAIN v.l : HasDate(v.l[j])
    [] OTHER -> FALSE

\* glom(result, "items", default=[])
Items(result) == IF Has(result, "items") THEN result.d["items"] ELSE ListV(<<>>)

\* glom(matches, "0.<key>", default=None)
FirstMatch(matches, key) ==
  IF Has(matches.l[1], key) THEN matches.l[1].d[key] ELSE None

\* the custom-id PUT and the custom-metadata PATCH on the one record that matched
Link(missing, matches, sent) ==
  IF ~Has(matches.l[1], "uri") THEN Raised(sent, "PathAccessError")
  ELSE IF matches.l[1].d["uri"].t # "str" THEN Raised(sent, "TypeError")
  ELSE LET uri == matches.l[1].d["uri"]
           put == Request("PUT", "/custom-id", uri, missing.d["custom_id"],
                          DictV("custom_id" :> missing.d["custom_id"]))
       IN IF ~Has(missing, "custom_metadata") THEN Raised(Append(sent, put), "KeyError")
          ELSE Sent(sent \o << put,
                               Request("PATCH", "/custom-metadata", uri, missing.d["custom_id"],
                                       missing.d["custom_metadata"]) >>)

\* the branch without the test of the remote custom_id
Decide_Overwrite(missing, matches, sent) ==
  IF matches.t # "list" THEN Raised(sent, "TypeError")
  ELSE IF Len(matches.l) > 1 THEN Sent(sent)
  ELSE IF Len(matches.l) = 1 THEN Link(missing, matches, sent)
  ELSE IF HasDate(missing) THEN Raised(sent, "TypeError")
  ELSE Sent(Append(sent, Request("POST", "/v1/third-parties", None, missing.d["custom_id"],
                                 missing)))

\* process_missing_vendors, from `if len(matches) > 1` to the end of the iteration
Decide(missing, matches, sent) ==
  IF matches.t # "list" THEN Raised(sent, "TypeError")
  ELSE IF Len(matches.l) > 1 THEN Sent(sent)
  ELSE IF Len(matches.l) = 1
    THEN IF ~Falsy(FirstMatch(matches, "custom_id")) THEN Sent(sent)
         ELSE Link(missing, matches, sent)
  ELSE IF HasDate(missing) THEN Raised(sent, "TypeError")
  ELSE Sent(Append(sent, Request("POST", "/v1/third-parties", None, missing.d["custom_id"],
                                 missing)))

\* one iteration of process_missing_vendors; by_name and by_domain are the bodies
\* of the responses to the two GETs, the second is read only if the GET is sent
process_missing_vendor(missing, by_name, by_domain) ==
  IF missing.d["name"].t # "str" THEN Raised(<<>>, "TypeError")
  ELSE LET get_name == Request("GET", "/v1/third-parties?&name=", None,
                               missing.d["custom_id"], missing.d["name"])
       IN IF ~Falsy(Items(by_name)) THEN Decide(missing, Items(by_name), <<get_name>>)
          ELSE IF ~Has(missing, "url") THEN Raised(<<get_name>>, "KeyError")
          ELSE IF missing.d["url"].t # "str" THEN Raised(<<get_name>>, "TypeError")
          ELSE Decide(missing, Items(by_domain),
                      << get_name,
                         Request("GET", "/v1/third-parties?&domain=", None,
                                 missing.d["custom_id"], missing.d["url"]) >>)

\* one iteration of process_profile_updates
process_profile_update(vendor) ==
  IF vendor.d["grx"].d["id"].t # "str" THEN Raised(<<>>, "TypeError")
  ELSE IF ~Has(vendor, "third_party_scoping") THEN Raised(<<>>, "KeyError")
  ELSE Sent(<< Request("PUT", "/scoping", vendor.d["grx"].d["id"], vendor.d["custom_id"],
                       vendor.d["third_party_scoping"]) >>)

\* process_matched_vendors: one row update per vendor, sent in one update_rows
RowUpdate(vendor) ==
  DictV(("id" :> IntV(StrToInt(vendor.d["custom_id"].s)))
        @@ ("Impact" :> vendor.d["grx"].d["impact"])
        @@ ("Likelihood" :> vendor.d["grx"].d["likelihood"]))
process_matched_vendors(matched) ==
  Sent(<< Request("update_rows", "sheet", None, None,
                  ListV([j \in DOMAIN matched |-> RowUpdate(matched[j])])) >>)

----------------------------------------------------------------------------
(* sync.py: sync_smart_sheet *)

\* set([v["custom_id"] for v in grx_vendors if v["custom_id"]])
GrxCustomIds(grx) == {grx[j].d["custom_id"] : j \in {k \in DOMAIN grx : ~Falsy(grx[k].d["custom_id"])}}

\* [vendor for vendor in smart_sheet_vendors if vendor["custom_id"] not in grx_custom_ids]
MissingVendors(vendors, grx) ==
  SelectSeq(vendors, LAMBDA v : v.d["custom_id"] \notin GrxCustomIds(grx))

\* {vendor["custom_id"]: vendor for vendor in grx_vendors}[custom_id]: the last one wins
GrxVendorMap(grx, custom_id) ==
  grx[CHOOSE j \in DOMAIN grx :
        /\ grx[j].d["custom_id"] = custom_id
        /\ \A k \in DOMAIN grx : grx[k].d["custom_id"] = custom_id => k <= j]

\* the matched vendors, after vendor["grx"] = grx_vendor_map[vendor["custom_id"]]
MatchedVendors(vendors, grx) ==
  LET matched == SelectSeq(vendors, LAMBDA v : v.d["custom_id"] \in GrxCustomIds(grx))
  IN [j \in DOMAIN matched |->
        DictV(("grx" :> GrxVendorMap(grx, matched[j].d["custom_id"])) @@ matched[j].d)]

\* the scoping answers sent for every matched vendor
VendorsWithProfile_All(matched) == matched

\* [vendor for vendor in matched_vendors if not vendor["grx"]["is_profile_complete"]]
VendorsWithProfile(matched) ==
  SelectSeq(matched, LAMBDA v : Falsy(v.d["grx"].d["is_profile_complete"]))

\* the bodies the remote platform answers a lookup with
Unlinked == DictV("uri" :> StrV(<<"/","g","7">>))
NullLinked == DictV(("uri" :> StrV(<<"/","g","8">>)) @@ ("custom_id" :> None))
Linked == DictV(("uri" :> StrV(<<"/","g","9">>)) @@ ("custom_id" :> StrV(<<"9">>)))
LookupResults ==
  { EmptyDict,
    DictV("items" :> None),
    DictV("items" :> ListV(<<>>)),
    DictV("items" :> ListV(<<Unlinked>>)),
    DictV("items" :> ListV(<<NullLinked>>)),
    DictV("items" :> ListV(<<Linked>>)),
    DictV("items" :> ListV(<<EmptyDict>>)),
    DictV("items" :> ListV(<<Unlinked, Linked>>)) }

NoCall == [op |-> "none", selector |-> "", arg |-> None, done |-> TRUE, res |-> Ok(None)]
NotAsked == [t |-> "not asked"]
NoLookups == [custom_id |-> None, by_name |-> NotAsked, by_domain |-> NotAsked]

Init ==
  /\ pc = "get_sheet"
  /\ sheet = <<>>
  /\ smart_sheet_vendors = <<>>
  /\ grx_vendors = <<>>
  /\ exc = "none"
  /\ missing_vendors = <<>>
  /\ matched_vendors = <<>>
  /\ handled = 0
  /\ lookups = NoLookups
  /\ requests = <<>>
  /\ call = NoCall

\* sheet = smart.Sheets.get_sheet(sheet_id)
GetSheet ==
  /\ pc = "get_sheet"
  /\ \E rows \in Sheets : sheet' = rows
  /\ pc' = "normalize"
  /\ UNCHANGED <<smart_sheet_vendors, grx_vendors, exc, missing_vendors, matched_vendors,
                 handled, lookups, requests, call>>

\* one iteration of [normalize_vendor(vendor, HEADER_MAPPING, COMPANY_SCHEMA)
\* for vendor in sheet.rows]: an exception leaves the comprehension and the run
NormalizeRow ==
  /\ pc = "normalize"
  /\ Len(smart_sheet_vendors) < Len(sheet)
  /\ LET vendor == normalize_vendor(sheet[Len(smart_sheet_vendors) + 1],
                                    HEADER_MAPPING, COMPANY_SCHEMA)
     IN IF vendor.ok
        THEN /\ smart_sheet_vendors' = Append(smart_sheet_vendors, vendor.v)
             /\ UNCHANGED <<pc, exc>>
        ELSE /\ pc' = "raised"
             /\ exc' = vendor.exc
             /\ UNCHANGED smart_sheet_vendors
  /\ UNCHANGED <<sheet, grx_vendors, missing_vendors, matched_vendors, handled, lookups,
                 requests, call>>

\* grx_vendors = glom(json.loads(response.content), ([GRX_COMPANY_SCHEMA])), then
\* missing_vendors = [...]
FetchGrx ==
  /\ pc = "normalize"
  /\ Len(smart_sheet_vendors) = Len(sheet)
  /\ \E response \in Responses :
       LET vendors == Glom(ListV(response), ListSpec(GRX_COMPANY_SCHEMA))
       IN IF vendors.ok
          THEN /\ grx_vendors' = vendors.v.l
               /\ missing_vendors' = MissingVendors(smart_sheet_vendors, vendors.v.l)
               /\ pc' = "missing"
               /\ UNCHANGED exc
          ELSE /\ pc' = "raised"
               /\ exc' = vendors.exc
               /\ UNCHANGED <<grx_vendors, missing_vendors>>
  /\ UNCHANGED <<sheet, smart_sheet_vendors, matched_vendors, handled, lookups, requests, call>>

\* one iteration of the loop of process_missing_vendors
ProcessMissingVendor ==
  /\ pc = "missing"
  /\ handled < Len(missing_vendors)
  /\ \E by_name \in LookupResults, by_domain \in LookupResults :
       LET missing == missing_vendors[handled + 1]
           step == process_missing_vendor(missing, by_name, by_domain)
           asked == \E j \in DOMAIN step.requests :
                      step.requests[j].path = "/v1/third-parties?&domain="
       IN /\ requests' = requests \o step.requests
          /\ lookups' = [custom_id |-> missing.d["custom_id"],
                         by_name |-> IF step.requests = <<>> THEN NotAsked ELSE by_name,
                         by_domain |-> IF asked THEN by_domain ELSE NotAsked]
          /\ IF step.exc = "none"
             THEN handled' = handled + 1 /\ UNCHANGED <<pc, exc>>
             ELSE pc' = "raised" /\ exc' = step.exc /\ UNCHANGED handled
  /\ UNCHANGED <<sheet, smart_sheet_vendors, grx_vendors, missing_vendors, matched_vendors, call>>

\* process_missing_vendors has returned: grx_vendor_map, matched_vendors and
\* vendor["grx"] = ...
Associate ==
  /\ pc = "missing"
  /\ handled = Len(missing_vendors)
  /\ matched_vendors' = MatchedVendors(smart_sheet_vendors, grx_vendors)
  /\ handled' = 0
  /\ lookups' = NoLookups
  /\ pc' = "profile"
  /\ UNCHANGED <<sheet, smart_sheet_vendors, grx_vendors, exc, missing_vendors, requests, call>>

\* one iteration of the loop of process_profile_updates
ProcessProfileUpdate ==
  /\ pc = "profile"
  /\ handled < Len(VendorsWithProfile(matched_vendors))
  /\ LET step == process_profile_update(VendorsWithProfile(matched_vendors)[handled + 1])
     IN /\ requests' = requests \o step.requests
        /\ IF step.exc = "none"
           THEN handled' = handled + 1 /\ UNCHANGED <<pc, exc>>
           ELSE pc' = "raised" /\ exc' = step.exc /\ UNCHANGED handled
  /\ UNCHANGED <<sheet, smart_sheet_vendors, grx_vendors, missing_vendors, matched_vendors,
                 lookups, call>>

\* process_profile_updates has returned: if matched_vendors: process_matched_vendors(...)
ProcessMatchedVendors ==
  /\ pc = "profile"
  /\ handled = Len(VendorsWithProfile(matched_vendors))
  /\ requests' = IF matched_vendors = <<>> THEN requests
                 ELSE requests \o process_matched_vendors(matched_vendors).requests
  /\ pc' = "done"
  /\ UNCHANGED <<sheet, smart_sheet_vendors, grx_vendors, exc, missing_vendors, matched_vendors,
                 handled, lookups, call>>

Next ==
  \/ GetSheet
  \/ NormalizeRow
  \/ FetchGrx
  \/ ProcessMissingVendor
  \/ Associate
  \/ ProcessProfileUpdate
  \/ ProcessMatchedVendors

Spec == Init /\ [][Next]_vars

----------------------------------------------------------------------------
(* Single calls: one input is drawn, one call is made on it *)

Pending(op, selector, arg) ==
  [op |-> op, selector |-> selector, arg |-> arg, done |-> FALSE, res |-> Ok(None)]

Calls ==
  {Pending("normalize_vendor", "", [id |-> 12, cells |-> cells]) : cells \in SheetCells}
  \cup {Pending("glom_grx", "", ListV(<<record>>)) : record \in RemoteRecords}
  \cup {Pending("email_metadata", selector, value) :
          selector \in {"domain", "first_name", "last_name"}, value \in EmailValues}
  \cup {Pending("validate_answer", "", value) : value \in AnswerValues}

InitCalls ==
  /\ pc = "get_sheet"
  /\ sheet = <<>>
  /\ smart_sheet_vendors = <<>>
  /\ grx_vendors = <<>>
  /\ exc = "none"
  /\ missing_vendors = <<>>
  /\ matched_vendors = <<>>
  /\ handled = 0
  /\ lookups = NoLookups
  /\ requests = <<>>
  /\ call \in Calls

Return(res) ==
  /\ call' = [call EXCEPT !.done = TRUE, !.res = res]
  /\ UNCHANGED <<pc, sheet, smart_sheet_vendors, grx_vendors, exc, missing_vendors,
                 matched_vendors, handled, lookups, requests>>

\* normalize_vendor(row, HEADER_MAPPING, COMPANY_SCHEMA)
CallNormalizeVendor ==
  /\ call.op = "normalize_vendor" /\ ~call.done
  /\ Return(normalize_vendor(call.arg, HEADER_MAPPING, COMPANY_SCHEMA))

\* glom(records, [GRX_COMPANY_SCHEMA])
CallGlomGrx ==
  /\ call.op = "glom_grx" /\ ~call.done
  /\ Return(Glom(call.arg, ListSpec(GRX_COMPANY_SCHEMA)))

\* email_metadata(selector)(value)
CallEmailMetadata ==
  /\ call.op = "email_metadata" /\ ~call.done
  /\ Return(email_metadata(call.selector, call.arg))

\* validate_answer(value)
CallValidateAnswer ==
  /\ call.op = "validate_answer" /\ ~call.done
  /\ Return(validate_answer(call.arg))

NextCalls == CallNormalizeVendor \/ CallGlomGrx \/ CallEmailMetadata \/ CallValidateAnswer

SpecCalls == InitCalls /\ [][NextCalls]_vars

----------------------------------------------------------------------------
(* What the properties read *)

NormalizeDone == call.op = "normalize_vendor" /\ call.done
GrxDone == call.op = "glom_grx" /\ call.done
EmailDone == call.op = "email_metadata" /\ call.done
AnswerDone == call.op = "validate_answer" /\ call.done

\* the raw record normalize_vendor evaluates the schema on
Target == row_to_vendor(call.arg, HEADER_MAPPING)

\* the value of a key of the raw record, None when the key is absent
Cell(t, k) == IF Has(t, k) THEN t.d[k] ELSE None
Truthy(v) == ~Falsy(v)

\* every Coalesce of a schema that is evaluated on the record itself
RECURSIVE ChainsOf(_)
ChainsOf(spec) ==
  CASE spec.n = "coalesce" ->
         {spec} \cup UNION {ChainsOf(spec.subspecs[i]) : i \in DOMAIN spec.subspecs}
    [] spec.n = "tuple" -> ChainsOf(spec.steps[1])
    [] spec.n = "dict" -> UNION {ChainsOf(spec.items[i][2]) : i \in DOMAIN spec.items}
    [] spec.n = "list" -> ChainsOf(spec.sub)
    [] OTHER -> {}

\* every alternative of the chain raised a GlomError
Exhausted(t, chain) ==
  \A i \in DOMAIN chain.subspecs :
    LET r == Glom(t, chain.subspecs[i]) IN ~r.ok /\ r.exc \in GlomErrors

\* the alternatives of the chain that raise nothing
Succeeding(t, chain) == {i \in DOMAIN chain.subspecs : Glom(t, chain.subspecs[i]).ok}
Least(S) == CHOOSE i \in S : \A j \in S : i <= j

RECURSIVE HasOmit(_)
HasOmit(v) ==
  CASE v.t = "OMIT" -> TRUE
    [] v.t = "dict" -> \E k \in DOMAIN v.d : HasOmit(v.d[k])
    [] v.t = "list" -> \E i \in DOMAIN v.l : HasOmit(v.l[i])
    [] OTHER -> FALSE

----------------------------------------------------------------------------
(* C1 *)

UrlAndAddress(v) ==
  /\ Has(v, "url") /\ Truthy(v.d["url"])
  /\ Has(v, "address")
  /\ Has(v.d["address"], "city")
  /\ Has(v.d["address"], "country")

\* C1: normalize_vendor sets record_has_url_and_address, and sets it to true exactly
\* when the evaluated record has a non-empty url and an address mapping that holds
\* both a city key and a country key; with any of the three missing it is false.
C1_FlagIffUrlCityCountry ==
  (NormalizeDone /\ call.res.ok) =>
    /\ Has(call.res.v, "record_has_url_and_address")
    /\ call.res.v.d["record_has_url_and_address"] = BoolV(UrlAndAddress(call.res.v))

\* a row with a url, a city and a country, normalized, the flag true
C1_Witness ==
  /\ NormalizeDone /\ call.res.ok
  /\ Truthy(Cell(Target, "company_url"))
  /\ Truthy(Cell(Target, "address_city")) /\ Truthy(Cell(Target, "address_country"))
  /\ call.res.v.d["record_has_url_and_address"] = BoolV(TRUE)

----------------------------------------------------------------------------
(* C2 *)

FullNameTokens(t) == PySplit(Cell(t, "third_party_contact_name").s, " ")
EmailLocalTokens(t) ==
  PySplit(validate_email(Cell(t, "third_party_contact_email").s).local, ".")
EmailUsable(t) ==
  /\ Truthy(Cell(t, "third_party_contact_email"))
  /\ validate_email(Cell(t, "third_party_contact_email").s).valid
  /\ Len(EmailLocalTokens(t)) >= 2

\* the first name by the precedence of the specification; firstTokenNeeded: the full name is
\* used only when its first token is not empty
FirstNameByPrecedence(t, firstTokenNeeded) ==
  IF Truthy(Cell(t, "third_party_contact_first_name"))
  THEN Ok(Cell(t, "third_party_contact_first_name"))
  ELSE IF /\ Truthy(Cell(t, "third_party_contact_name"))
          /\ Len(FullNameTokens(t)) >= 2
          /\ (firstTokenNeeded => FullNameTokens(t)[1] # <<>>)
  THEN Ok(StrV(FullNameTokens(t)[1]))
  ELSE IF EmailUsable(t) THEN Ok(StrV(PyCapitalize(EmailLocalTokens(t)[1])))
  ELSE Ok(OMIT)

FirstSucceedingWins(t, schema) ==
  \A chain \in ChainsOf(schema) :
    Succeeding(t, chain) # {} =>
      Glom(t, chain) = Glom(t, chain.subspecs[Least(Succeeding(t, chain))])

\* C2 as written: the full name is used whenever it has at least 2 tokens
C2_Original ==
  NormalizeDone =>
    /\ FirstSucceedingWins(Target, COMPANY_SCHEMA)
    /\ Glom(Target, COMPANY_SCHEMA_first_name_chain) = FirstNameByPrecedence(Target, FALSE)

\* C2 (amended): every fallback chain of the vendor schema evaluates to the value of
\* its first alternative, in declaration order, that does not fail; the contact's
\* first name is the non-empty first-name field, else the first space-separated
\* token of the full name when the full name has at least 2 tokens and that first
\* token is not empty, else the capitalized first '.'-token of the local part of a
\* valid email whose local part has at least 2 such tokens, else it is omitted.
C2_FallbackPrecedence ==
  NormalizeDone =>
    /\ FirstSucceedingWins(Target, COMPANY_SCHEMA)
    /\ Glom(Target, COMPANY_SCHEMA_first_name_chain) = FirstNameByPrecedence(Target, TRUE)

\* no first name, the full name "Ann Lee" and a usable email: the chain gives "Ann"
C2_Witness ==
  /\ NormalizeDone /\ call.res.ok
  /\ Falsy(Cell(Target, "third_party_contact_first_name"))
  /\ Cell(Target, "third_party_contact_name") = AnnLee
  /\ EmailUsable(Target)
  /\ Glom(Target, COMPANY_SCHEMA_first_name_chain) = Ok(Ann)
  /\ call.res.v.d["third_party_contact"].d["first_name"] = Ann

----------------------------------------------------------------------------
(* C3 *)

\* the records a done call evaluated a schema on, and that schema
Evaluated ==
  IF NormalizeDone THEN {<<Target, COMPANY_SCHEMA>>}
  ELSE IF GrxDone THEN {<<call.arg.l[i], GRX_COMPANY_SCHEMA>> : i \in DOMAIN call.arg.l}
  ELSE {}

\* C3 as written: an exhausted chain gives its default, or OMIT when it has none
C3_Original ==
  \A e \in Evaluated : \A chain \in ChainsOf(e[2]) :
    Exhausted(e[1], chain) =>
      Glom(e[1], chain) = Ok(IF chain.has_default THEN chain.default ELSE OMIT)

\* C3 (amended): when every alternative of a fallback chain fails, the chain returns
\* its default if one was supplied, and itself fails (CoalesceError) if it was
\* declared with no default; the only chain of the schemas declared without a
\* default is the inner url chain, and its failure is caught by the enclosing url
\* chain, which returns its default, the Omission Signal.
C3_ExhaustedChain ==
  /\ \A e \in Evaluated : \A chain \in ChainsOf(e[2]) :
       /\ chain.has_default \/ chain = COMPANY_SCHEMA_url_inner
       /\ Exhausted(e[1], chain) =>
            Glom(e[1], chain) =
              (IF chain.has_default THEN Ok(chain.default) ELSE Raise("CoalesceError"))
  /\ (NormalizeDone /\ Exhausted(Target, COMPANY_SCHEMA_url_inner)) =>
       Glom(Target, COMPANY_SCHEMA_url) = Ok(OMIT)

\* a row with no url and no usable email: the inner url chain is exhausted
C3_Witness ==
  /\ NormalizeDone /\ call.res.ok
  /\ Exhausted(Target, COMPANY_SCHEMA_url_inner)
  /\ ~Has(call.res.v, "url")

----------------------------------------------------------------------------
(* C4 *)

\* the mappings of the vendor schema that are wrapped in skip_falsy
WrappedMappings ==
  << <<"address", COMPANY_SCHEMA_address_fields>>,
     <<"third_party_contact", COMPANY_SCHEMA_contact_fields>>,
     <<"third_party_scoping", COMPANY_SCHEMA_scoping_fields>>,
     <<"custom_metadata", COMPANY_SCHEMA_custom_metadata_fields>> >>

\* C4: a child that evaluates to the Omission Signal is absent from its mapping, and
\* a mapping wrapped in skip_falsy whose children all omit is itself absent from
\* the record.
C4_EmptyMappingOmitted ==
  (NormalizeDone /\ call.res.ok) =>
    \A i \in DOMAIN WrappedMappings :
      LET fields == Glom(Target, WrappedMappings[i][2])
      IN /\ fields.ok /\ ~HasOmit(fields.v)
         /\ fields.v = EmptyDict => ~Has(call.res.v, WrappedMappings[i][1])

----------------------------------------------------------------------------
(* C5 *)

\* C5: a record normalized with COMPANY_SCHEMA or GRX_COMPANY_SCHEMA holds the
\* Omission Signal as the value of no key, at any depth.
C5_NoOmissionSignal ==
  ((NormalizeDone \/ GrxDone) /\ call.res.ok) => ~HasOmit(call.res.v)

\* a record some of whose fields evaluated to the Omission Signal
C5_Witness ==
  /\ NormalizeDone /\ call.res.ok
  /\ Glom(Target, COMPANY_SCHEMA_url) = Ok(OMIT)
  /\ Glom(Target, COMPANY_SCHEMA_order_info) = Ok(OMIT)
  /\ ~Has(call.res.v, "url") /\ ~Has(call.res.v, "order_info")

----------------------------------------------------------------------------
(* C6 *)

Normalized(row) == normalize_vendor(row, HEADER_MAPPING, COMPANY_SCHEMA)

\* C6: a row whose ingest date is malformed fails alone: once the batch is over,
\* every row of the sheet that normalizes without failure has been normalized.
C6_BadRowFailsAlone ==
  pc \notin {"get_sheet", "normalize"} =>
    \A i \in DOMAIN sheet :
      Normalized(sheet[i]).ok =>
        \E j \in DOMAIN smart_sheet_vendors : smart_sheet_vendors[j] = Normalized(sheet[i]).v

----------------------------------------------------------------------------
(* C7 *)

MalformedDate(t) ==
  Truthy(Cell(t, "ingest_date")) /\ ~date_or_none(Cell(t, "ingest_date")).ok

\* C7: the evaluation of a schema raises for no absent field: a row raises only for
\* a malformed ingest date, a remote record never, and a bare leaf path whose key
\* is missing gives None.
C7_AbsentFieldNeverRaises ==
  /\ (NormalizeDone /\ ~MalformedDate(Target)) =>
       /\ call.res.ok
       /\ ~Has(Target, "company_name") => call.res.v.d["name"] = None
  /\ GrxDone =>
       /\ call.res.ok
       /\ \A k \in {"id", "name", "custom_id"} :
            ~Has(call.arg.l[1], k) => call.res.v.l[1].d[k] = None

----------------------------------------------------------------------------
(* C8 *)

\* C8: the row that has only the vendor name "Acme", the contact email
\* "j.smith@acme.com" and the tier "Tier 1" gives name "Acme", url
\* "https://acme.com", the contact's first name "J" and last name "Smith", the
\* order {tier: 1, validated: true}, and no address key.
C8_EndToEnd ==
  (NormalizeDone /\ call.arg.cells = AcmeCells) =>
    /\ call.res.ok
    /\ call.res.v.d["name"] = Acme
    /\ Has(call.res.v, "url")
    /\ call.res.v.d["url"] = StrV(<<"h","t","t","p","s",":","/","/","a","c","m","e",".","c","o","m">>)
    /\ Has(call.res.v, "third_party_contact")
    /\ Cell(call.res.v.d["third_party_contact"], "first_name") = StrV(<<"J">>)
    /\ Cell(call.res.v.d["third_party_contact"], "last_name") = StrV(<<"S","m","i","t","h">>)
    /\ Has(call.res.v, "order_info")
    /\ call.res.v.d["order_info"] = OrderInfo(1, TRUE)
    /\ ~Has(call.res.v, "address")

----------------------------------------------------------------------------
(* C9 *)

\* every tuple of a schema that is evaluated on the record itself
RECURSIVE TuplesOf(_)
TuplesOf(spec) ==
  CASE spec.n = "coalesce" -> UNION {TuplesOf(spec.subspecs[i]) : i \in DOMAIN spec.subspecs}
    [] spec.n = "tuple" -> {spec} \cup TuplesOf(spec.steps[1])
    [] spec.n = "dict" -> UNION {TuplesOf(spec.items[i][2]) : i \in DOMAIN spec.items}
    [] spec.n = "list" -> TuplesOf(spec.sub)
    [] OTHER -> {}

\* a chain as the specification has it: each stage takes the output of the stage before,
\* and the first failure or Omission Signal ends the chain and is its result
RECURSIVE StagesUntilOmission(_, _, _)
StagesUntilOmission(res, steps, i) ==
  IF i > Len(steps) THEN Ok(res)
  ELSE LET nxt == Glom(res, steps[i])
       IN IF ~nxt.ok \/ nxt.v = OMIT THEN nxt
          ELSE StagesUntilOmission(nxt.v, steps, i + 1)

\* C9: the stages of a coercer chain are applied left to right, each on the output
\* of the stage before, and once a stage fails or yields the Omission Signal no
\* later stage is applied: the chain's result is that failure or omission.
C9_OmissionEndsChain ==
  NormalizeDone =>
    \A chain \in TuplesOf(COMPANY_SCHEMA) :
      Glom(Target, chain) = StagesUntilOmission(Target, chain.steps, 1)

----------------------------------------------------------------------------
(* C10 *)

EmailParts(v) == PySplit(v.s, "@")
LocalTokens(v) == PySplit(EmailParts(v)[1], ".")
ValidEmail(v) == Truthy(v) /\ v.t = "str" /\ validate_email(v.s).valid

\* what email_metadata returns for a valid email
EmailSelection(selector, v, domain) ==
  CASE selector = "domain" -> StrV(domain)
    [] selector = "first_name" -> StrV(PyCapitalize(LocalTokens(v)[1]))
    [] selector = "last_name" -> StrV(PyCapitalize(LocalTokens(v)[Len(LocalTokens(v))]))

\* C10 as written: only a falsy value or an invalid email fails; a local part
\* without '.' is its own first and last token
C10_Original ==
  EmailDone =>
    /\ call.res.ok <=> ValidEmail(call.arg)
    /\ ValidEmail(call.arg) =>
         call.res.v = EmailSelection(call.selector, call.arg, PyLower(EmailParts(call.arg)[2]))

\* C10 (amended): email_metadata(selector) fails (GlomError) exactly when the value
\* is falsy, is not a syntactically valid email, or, for 'first_name' and
\* 'last_name', has a local part with fewer than two '.'-delimited tokens (no '.',
\* or empty); otherwise it returns the domain part (as the validator normalizes
\* it: lower-cased) for 'domain', and for 'first_name'/'last_name' the first/last
\* '.'-token of the local part, capitalized.
C10_EmailMetadata ==
  EmailDone =>
    LET usable == /\ ValidEmail(call.arg)
                  /\ call.selector # "domain" => Len(LocalTokens(call.arg)) >= 2
    IN /\ call.res.ok <=> usable
       /\ ~call.res.ok => call.res.exc = "GlomError"
       /\ usable =>
            call.res.v = EmailSelection(call.selector, call.arg, PyLower(EmailParts(call.arg)[2]))

\* the last name of "j.sMITH@Acme.COM" is "Smith"
C10_Witness ==
  /\ EmailDone /\ call.selector = "last_name" /\ call.arg = MixedEmail
  /\ call.res = Ok(StrV(<<"S","m","i","t","h">>))

----------------------------------------------------------------------------
(* C11 *)

\* the answer as it is compared: str(value), trimmed and lower-cased
Compared(v) == PyLower(PyStrip(PyStr(v)))

\* the enumeration keys, in their order, that the text begins with
KeysBeginning(n) ==
  {i \in DOMAIN VALID_ANSWERS :
     \E rest \in {SubSeq(n, j, Len(n)) : j \in 1..(Len(n) + 1)} : n = VALID_ANSWERS[i].key \o rest}

AnswerLabels ==
  {StrV(<<"L","e","a","s","t">>), StrV(<<"M","i","n","i","m","a","l">>),
   StrV(<<"M","o","d","e","r","a","t","e">>),
   StrV(<<"S","i","g","n","i","f","i","c","a","n","t">>)}

\* C11: validate_answer never fails and gives one of the four labels or the
\* Omission Signal: the Omission Signal for a falsy input and for an input that,
\* trimmed and lower-cased, begins with no enumeration key; otherwise the label of
\* the first key, in the order least, minimal, moderate, significant, that the
\* trimmed, lower-cased input begins with.
C11_ValidateAnswer ==
  AnswerDone =>
    /\ call.res.ok
    /\ call.res.v \in AnswerLabels \cup {OMIT}
    /\ IF Falsy(call.arg) \/ KeysBeginning(Compared(call.arg)) = {}
       THEN call.res.v = OMIT
       ELSE call.res.v = StrV(VALID_ANSWERS[Least(KeysBeginning(Compared(call.arg)))].label)

\* " Significant impact" has been mapped to "Significant"
C11_Witness ==
  /\ AnswerDone
  /\ call.arg = StrV(<<" ">> \o SignificantImpact.s)
  /\ call.res = Ok(StrV(<<"S","i","g","n","i","f","i","c","a","n","t">>))

----------------------------------------------------------------------------
(* C14 *)

\* custom_metadata.internal of the normalized record, {} when it is not there
Internal(v) ==
  IF Has(v, "custom_metadata") /\ Has(v.d["custom_metadata"], "internal")
  THEN v.d["custom_metadata"].d["internal"]
  ELSE EmptyDict

\* the field holds the cell of this column whenever either of them has a value
FromColumn(t, internal, field, column) ==
  /\ Truthy(Cell(t, HEADER_MAPPING[column])) =>
       Has(internal, field) /\ internal.d[field] = Cell(t, HEADER_MAPPING[column])
  /\ Has(internal, field) /\ Truthy(internal.d[field]) =>
       internal.d[field] = Cell(t, HEADER_MAPPING[column])

\* C14: every field of custom_metadata.internal reflects its own column: owner the
\* 'Vendor Owner' cell, description the 'Description' cell, location the 'Location'
\* cell; location is present exactly when the Location cell is non-empty, and then
\* is that cell's value.
C14_InternalFromOwnColumn ==
  NormalizeDone /\ call.res.ok =>
    LET internal == Internal(call.res.v) IN
      /\ FromColumn(Target, internal, "owner", "Vendor Owner")
      /\ FromColumn(Target, internal, "description", "Description")
      /\ FromColumn(Target, internal, "location", "Location")
      /\ Has(internal, "location") <=> Truthy(Cell(Target, "internal_location"))

----------------------------------------------------------------------------
(* C12 *)

\* the write requests sent for the vendor of the last iteration of
\* process_missing_vendors
WritesOfIteration ==
  {requests[j] : j \in {k \in DOMAIN requests :
                          /\ requests[k].custom_id = lookups.custom_id
                          /\ requests[k].method # "GET"}}

\* the lookup was made and returned no record
NoMatch(result) == result # NotAsked /\ Falsy(Items(result))

\* the records the lookups of the iteration matched: those of the lookup by name,
\* or, when it returned none, those of the lookup by domain
MatchedRecords ==
  IF lookups.by_name # NotAsked /\ ~NoMatch(lookups.by_name) THEN Items(lookups.by_name).l
  ELSE IF lookups.by_domain # NotAsked /\ ~NoMatch(lookups.by_domain)
    THEN Items(lookups.by_domain).l
  ELSE <<>>

HasCustomId(record) == Has(record, "custom_id") /\ Truthy(record.d["custom_id"])

\* C12: for a missing vendor process_missing_vendors sends at most one of the link
\* (custom-id PUT, custom-metadata PATCH) and the create (POST /v1/third-parties):
\* the create only when both the lookup by name and the lookup by domain returned no
\* match, the custom-id PUT only when exactly one record matched and it has no
\* custom_id, and no write at all when more than one record matched or the one
\* match already has a custom_id.
C12_LinkOrCreate ==
  lookups # NoLookups =>
    LET create == \E r \in WritesOfIteration : r.method = "POST"
        put == \E r \in WritesOfIteration : r.method = "PUT" /\ r.path = "/custom-id"
        link == \E r \in WritesOfIteration : r.method \in {"PUT", "PATCH"}
    IN /\ ~(create /\ link)
       /\ create => NoMatch(lookups.by_name) /\ NoMatch(lookups.by_domain)
       /\ put => Len(MatchedRecords) = 1 /\ ~HasCustomId(MatchedRecords[1])
       /\ link => put
       /\ Len(MatchedRecords) > 1 => WritesOfIteration = {}
       /\ Len(MatchedRecords) = 1 /\ HasCustomId(MatchedRecords[1]) => WritesOfIteration = {}

\* one missing vendor has been created and the next one linked to the record that
\* the lookup by domain found
C12_Witness ==
  /\ lookups # NoLookups
  /\ NoMatch(lookups.by_name)
  /\ Items(lookups.by_domain) = ListV(<<NullLinked>>)
  /\ \E r \in WritesOfIteration : r.method = "PUT" /\ r.path = "/custom-id"
  /\ \E j \in DOMAIN requests :
       requests[j].method = "POST" /\ requests[j].custom_id # lookups.custom_id

----------------------------------------------------------------------------
(* C13 *)

\* the body of a lookup response is as the remote platform documents it: a list
\* of records, each with its uri
WellFormed(result) ==
  \/ result = NotAsked
  \/ /\ Items(result).t = "list"
     /\ \A j \in DOMAIN Items(result).l : Has(Items(result).l[j], "uri")

\* the run has been left by an exception raised in an iteration of
\* process_missing_vendors or of process_profile_updates, on well-formed responses
LoopAborted ==
  /\ pc = "raised"
  /\ WellFormed(lookups.by_name) /\ WellFormed(lookups.by_domain)
  /\ \/ lookups # NoLookups
     \/ matched_vendors # <<>>

\* C13: process_missing_vendors and process_profile_updates abort on no vendor:
\* whatever record the schema has produced (url omitted or not, ingest date or
\* none), the iteration ends in an outcome and no exception leaves the loop.
C13_LoopsNeverAbort == ~LoopAborted

----------------------------------------------------------------------------
(* C15 *)

CustomIdsOf(vendors) == {vendors[j].d["custom_id"] : j \in DOMAIN vendors}

\* the non-empty custom_ids among the records fetched from the remote platform
RemoteCustomIds == {id \in CustomIdsOf(grx_vendors) : Truthy(id)}

\* the phase a request belongs to: 1 create/link of the missing vendors, 2 scoping
\* answers, 3 risk values written back to the sheet
PhaseOf(r) ==
  CASE r.method = "update_rows" -> 3
    [] r.method = "PUT" /\ r.path = "/scoping" -> 2
    [] OTHER -> 1

\* C15: every sheet vendor is in exactly one of missing_vendors and
\* matched_vendors, matched exactly when its custom_id is among the non-empty
\* custom_ids fetched from the remote platform; a matched vendor carries a fetched
\* record with its own custom_id; the requests go out in the order create/link of
\* missing vendors, scoping answers, sheet update; scoping answers are sent only for
\* matched vendors whose remote profile is not complete; the sheet update, sent
\* when there is a matched vendor, has one row per matched vendor.
C15_PartitionAndPhases ==
  /\ pc \in {"profile", "done"} =>
       /\ Len(missing_vendors) + Len(matched_vendors) = Len(smart_sheet_vendors)
       /\ \A i \in DOMAIN smart_sheet_vendors :
            LET id == smart_sheet_vendors[i].d["custom_id"] IN
              /\ (id \in CustomIdsOf(missing_vendors)) # (id \in CustomIdsOf(matched_vendors))
              /\ (id \in CustomIdsOf(matched_vendors)) <=> (id \in RemoteCustomIds)
       /\ \A j \in DOMAIN matched_vendors :
            /\ \E k \in DOMAIN grx_vendors : matched_vendors[j].d["grx"] = grx_vendors[k]
            /\ matched_vendors[j].d["grx"].d["custom_id"] = matched_vendors[j].d["custom_id"]
  /\ \A j, k \in DOMAIN requests : j < k => PhaseOf(requests[j]) <= PhaseOf(requests[k])
  /\ \A j \in DOMAIN requests :
       /\ PhaseOf(requests[j]) = 1 => requests[j].custom_id \in CustomIdsOf(missing_vendors)
       /\ PhaseOf(requests[j]) = 2 =>
            \E m \in DOMAIN matched_vendors :
              /\ matched_vendors[m].d["custom_id"] = requests[j].custom_id
              /\ matched_vendors[m].d["grx"].d["id"] = requests[j].target
              /\ Falsy(matched_vendors[m].d["grx"].d["is_profile_complete"])
       /\ PhaseOf(requests[j]) = 3 =>
            /\ Len(requests[j].body.l) = Len(matched_vendors)
            /\ \A m \in DOMAIN matched_vendors :
                 requests[j].body.l[m].d["id"].n = StrToInt(matched_vendors[m].d["custom_id"].s)
  /\ pc = "done" =>
       /\ (matched_vendors # <<>>) <=> (\E j \in DOMAIN requests : PhaseOf(requests[j]) = 3)
       /\ \A m \in DOMAIN matched_vendors :
            Falsy(matched_vendors[m].d["grx"].d["is_profile_complete"]) =>
              \E j \in DOMAIN requests :
                /\ PhaseOf(requests[j]) = 2
                /\ requests[j].custom_id = matched_vendors[m].d["custom_id"]

\* a run that has created one vendor, sent the scoping answers of another and
\* written its risk values to the sheet
C15_Witness ==
  /\ pc = "done"
  /\ Len(missing_vendors) = 1 /\ Len(matched_vendors) = 1
  /\ \E j \in DOMAIN requests : requests[j].method = "POST"
  /\ \E j \in DOMAIN requests : PhaseOf(requests[j]) = 2
  /\ PhaseOf(requests[Len(requests)]) = 3

====
